---- MODULE Spec2Model ----
(***************************************************************************)
(* Model of examples/scripts/analyze_expression.py: the significance       *)
(* filter, the pathway enrichment calculation and the ExpressionAnalyzer   *)
(* wrapper.                                                                *)
(*                                                                         *)
(* Python values are records tagged with their type in the field "type".   *)
(* Floats are records [nan, v]: v counts hundredths for p-values and       *)
(* halves for fold changes, so float comparison is integer comparison,     *)
(* and nan marks the IEEE not-a-number that every comparison rejects.      *)
(* A DataFrame is its set of columns, its index labels and its rows; the   *)
(* columns the code never reads (gene_id, significant) are left out, a row *)
(* is identified by its index label.                                       *)
(***************************************************************************)
EXTENDS Integers, Sequences, FiniteSets, TLC

VARIABLES
    data,               \* ExpressionAnalyzer.data
    significant_genes,  \* ExpressionAnalyzer.significant_genes
    op,                 \* the last call made: its name and arguments
    ret,                \* what the last call returned or raised
    last_run,           \* history: arguments of the most recent run_analysis
    gene_list,          \* calculate_pathway_enrichment: first argument
    pathway_db          \* calculate_pathway_enrichment: second argument

vars == <<data, significant_genes, op, ret, last_run, gene_list, pathway_db>>

----------------------------------------------------------------------------
(* Bounds of the model *)

MaxRows == 2
MaxGeneList == 3
MaxPathways == 2

----------------------------------------------------------------------------
(* Python values *)

None == [type |-> "NoneType"]

Raise(exc) == [type |-> exc]

NaN == [nan |-> TRUE, v |-> 0]

Float(x) == [nan |-> FALSE, v |-> x]

\* a < b on floats: False when either side is NaN
Lt(a, b) == ~a.nan /\ ~b.nan /\ a.v < b.v

\* a > b on floats: False when either side is NaN
Gt(a, b) == ~a.nan /\ ~b.nan /\ a.v > b.v

\* abs(a) on floats: abs(NaN) is NaN
Abs(a) == IF a.nan THEN NaN ELSE Float(IF a.v < 0 THEN -a.v ELSE a.v)

\* sequences over S of length at most n
SeqUpTo(S, n) == UNION {[1..k -> S] : k \in 0..n}

\* the positions of s, in order, at which keep holds
RECURSIVE Positions(_, _)
Positions(keep, n) ==
    IF n = 0 THEN <<>>
    ELSE IF keep[n] THEN Append(Positions(keep, n - 1), n)
         ELSE Positions(keep, n - 1)

----------------------------------------------------------------------------
(* DataFrames *)

Columns == {"p_value", "fold_change"}

PValues == {Float(1), Float(5), Float(20), NaN}

FoldChanges == {Float(-4), Float(-3), Float(0), Float(3), Float(4), NaN}

ColumnValues(c) == IF c = "p_value" THEN PValues ELSE FoldChanges

\* the rows a table with the columns cols can hold
Rows(cols) == {r \in [cols -> PValues \cup FoldChanges] :
                   \A c \in cols : r[c] \in ColumnValues(c)}

\* load_expression_data: a table read from a file, indexed 0..n-1
DataFrame(cols, rows) ==
    [type |-> "DataFrame", columns |-> cols,
     index |-> [i \in 1..Len(rows) |-> i - 1], values |-> rows]

DataFrames(cols) == {DataFrame(cols, rows) : rows \in SeqUpTo(Rows(cols), MaxRows)}

\* len(df)
DfLen(df) == Len(df.values)

\* df[mask]: the rows at which the boolean mask holds, with their labels
DfSelect(df, mask) ==
    LET pos == Positions(mask, DfLen(df))
    IN  [type |-> "DataFrame", columns |-> df.columns,
         index |-> [i \in 1..Len(pos) |-> df.index[pos[i]]],
         values |-> [i \in 1..Len(pos) |-> df.values[pos[i]]]]

----------------------------------------------------------------------------
(* filter_significant_genes *)

PThresholds == {Float(5), Float(20)}

FcThresholds == {Float(-1), Float(0), Float(3)}

\* the filter with p_value <= p_threshold in place of <
filter_significant_genes_le(d, p_threshold, fc_threshold) ==
    IF "p_value" \notin d.columns THEN Raise("KeyError")
    ELSE IF "fold_change" \notin d.columns THEN Raise("KeyError")
    ELSE DfSelect(d, [i \in 1..DfLen(d) |->
                        ~Gt(d.values[i]["p_value"], p_threshold)
                        /\ ~d.values[i]["p_value"].nan
                        /\ Gt(Abs(d.values[i]["fold_change"]), fc_threshold)])

\* the filter with abs(fold_change) >= fc_threshold in place of >
filter_significant_genes_ge(d, p_threshold, fc_threshold) ==
    IF "p_value" \notin d.columns THEN Raise("KeyError")
    ELSE IF "fold_change" \notin d.columns THEN Raise("KeyError")
    ELSE DfSelect(d, [i \in 1..DfLen(d) |->
                        Lt(d.values[i]["p_value"], p_threshold)
                        /\ ~Lt(Abs(d.values[i]["fold_change"]), fc_threshold)
                        /\ ~d.values[i]["fold_change"].nan])

filter_significant_genes(d, p_threshold, fc_threshold) ==
    IF "p_value" \notin d.columns THEN Raise("KeyError")
    ELSE IF "fold_change" \notin d.columns THEN Raise("KeyError")
    ELSE DfSelect(d, [i \in 1..DfLen(d) |->
                        Lt(d.values[i]["p_value"], p_threshold)
                        /\ Gt(Abs(d.values[i]["fold_change"]), fc_threshold)])

----------------------------------------------------------------------------
(* ExpressionAnalyzer *)

IsError(x) == x.type \in {"KeyError", "TypeError"}

\* ExpressionAnalyzer.__init__
AnalyzerInit ==
    /\ data \in UNION {DataFrames(cols) : cols \in SUBSET Columns}
    /\ significant_genes = None
    /\ op = [name |-> "__init__"]
    /\ ret = None
    /\ last_run = None
    /\ gene_list = <<>>
    /\ pathway_db = None

\* run_analysis filtering the stored result of the previous run, when there
\* is one, instead of the dataset
run_analysis_cumulative(p_threshold, fc_threshold) ==
    LET source == IF significant_genes.type = "DataFrame"
                  THEN significant_genes ELSE data
        result == filter_significant_genes(source, p_threshold, fc_threshold)
    IN  /\ op' = [name |-> "run_analysis", p_threshold |-> p_threshold,
                  fc_threshold |-> fc_threshold]
        /\ last_run' = [type |-> "tuple", p_threshold |-> p_threshold,
                        fc_threshold |-> fc_threshold]
        /\ significant_genes' = IF IsError(result) THEN significant_genes ELSE result
        /\ ret' = result
        /\ UNCHANGED <<data, gene_list, pathway_db>>

run_analysis(p_threshold, fc_threshold) ==
    LET result == filter_significant_genes(data, p_threshold, fc_threshold)
    IN  /\ op' = [name |-> "run_analysis", p_threshold |-> p_threshold,
                  fc_threshold |-> fc_threshold]
        /\ last_run' = [type |-> "tuple", p_threshold |-> p_threshold,
                        fc_threshold |-> fc_threshold]
        /\ significant_genes' = IF IsError(result) THEN significant_genes ELSE result
        /\ ret' = result
        /\ UNCHANGED <<data, gene_list, pathway_db>>

\* len(df[df['fold_change'] > 0]) and len(df[df['fold_change'] < 0])
\* upregulated counted with fold_change >= 0 in place of > 0
CountUp_ge(df) ==
    DfLen(DfSelect(df, [i \in 1..DfLen(df) |->
                          ~Lt(df.values[i]["fold_change"], Float(0))
                          /\ ~df.values[i]["fold_change"].nan]))

CountUp(df) ==
    DfLen(DfSelect(df, [i \in 1..DfLen(df) |-> Gt(df.values[i]["fold_change"], Float(0))]))

CountDown(df) ==
    DfLen(DfSelect(df, [i \in 1..DfLen(df) |-> Lt(df.values[i]["fold_change"], Float(0))]))

\* the value get_summary_stats computes in the current state; len(None)
\* raises TypeError
SummaryStats ==
    IF significant_genes.type = "NoneType" THEN Raise("TypeError")
    ELSE [type |-> "dict",
          total_genes |-> DfLen(data),
          significant_genes |-> DfLen(significant_genes),
          upregulated |-> CountUp(significant_genes),
          downregulated |-> CountDown(significant_genes)]

get_summary_stats ==
    /\ op' = [name |-> "get_summary_stats"]
    /\ ret' = SummaryStats
    /\ UNCHANGED <<data, significant_genes, last_run, gene_list, pathway_db>>

Next ==
    \/ \E p \in PThresholds, fc \in FcThresholds : run_analysis(p, fc)
    \/ get_summary_stats

Spec == AnalyzerInit /\ [][Next]_vars

----------------------------------------------------------------------------
(* Properties of the ExpressionAnalyzer *)

\* C4 (as claimed): get_summary_stats fails with NotYetAnalyzedError when
\* run_analysis has never been called, and returns a summary in every state
\* reached after at least one run_analysis call.
C4_NotYetAnalyzed ==
    op.name = "get_summary_stats" =>
        IF last_run = None THEN ret.type = "NotYetAnalyzedError"
        ELSE ret.type = "dict"

\* C5: once run_analysis has been called on a dataset of gene records, the
\* stored significant_genes is the dataset filtered with the thresholds of
\* the most recent run_analysis call: the rows whose p_value is below
\* p_threshold and whose fold_change exceeds fc_threshold in absolute value,
\* in dataset order, whatever calls came before; and run_analysis returns
\* the stored value.
C5_LastRunDecides ==
    (last_run.type = "tuple" /\ data.columns = Columns) =>
        LET pt  == last_run.p_threshold.v
            fct == last_run.fc_threshold.v
            p(i)  == data.values[i]["p_value"]
            fc(i) == data.values[i]["fold_change"]
            passes(i) == /\ ~p(i).nan /\ p(i).v < pt
                         /\ ~fc(i).nan /\ (fc(i).v > fct \/ -fc(i).v > fct)
            kept == {i \in 1..Len(data.values) : passes(i)}
            n == Len(significant_genes.values)
        IN  /\ significant_genes.type = "DataFrame"
            /\ n = Cardinality(kept)
            /\ Len(significant_genes.index) = n
            /\ \A k \in 1..n :
                  /\ significant_genes.index[k] + 1 \in kept
                  /\ significant_genes.values[k]
                        = data.values[significant_genes.index[k] + 1]
            /\ \A k \in 1..(n - 1) :
                  significant_genes.index[k] < significant_genes.index[k + 1]
            /\ (op.name = "run_analysis" => ret = significant_genes)

\* C5 witness: after a run and a later summary call, the stored result holds
\* the second of two records, the first having been filtered out.
C5_Witness ==
    /\ op.name = "get_summary_stats"
    /\ last_run.type = "tuple"
    /\ Len(data.values) = 2
    /\ significant_genes.type = "DataFrame"
    /\ significant_genes.index = <<1>>

\* C6: after run_analysis, get_summary_stats returns total_genes = the number
\* of records of the dataset, significant_genes = the number of stored
\* records, upregulated = the number of stored records with fold_change > 0
\* and downregulated = the number with fold_change < 0, so that a stored
\* record with fold_change 0 is counted in neither.
C6_SummaryCounts ==
    (op.name = "get_summary_stats" /\ significant_genes.type = "DataFrame") =>
        LET fc(i) == significant_genes.values[i]["fold_change"]
            rows  == 1..Len(significant_genes.values)
        IN  /\ ret.type = "dict"
            /\ ret.total_genes = Len(data.values)
            /\ ret.significant_genes = Len(significant_genes.values)
            /\ ret.upregulated = Cardinality({i \in rows : ~fc(i).nan /\ fc(i).v > 0})
            /\ ret.downregulated = Cardinality({i \in rows : ~fc(i).nan /\ fc(i).v < 0})

\* C6 witness: a summary over a stored result that holds a record with
\* fold_change 0 next to an upregulated one.
C6_Witness ==
    /\ op.name = "get_summary_stats"
    /\ ret.type = "dict"
    /\ ret.significant_genes = 2
    /\ ret.upregulated = 1
    /\ \E i \in 1..2 : significant_genes.values[i]["fold_change"] = Float(0)

\* C8 (as claimed): run_analysis on a dataset that lacks the p_value or the
\* fold_change column fails with MissingFieldError and leaves the stored
\* significant_genes as it was (never set, on such a dataset).
C8_MissingField ==
    (op.name = "run_analysis" /\ data.columns # Columns) =>
        /\ ret.type = "MissingFieldError"
        /\ significant_genes = None

\* C10: in every state after a run_analysis that stored a result, the summary
\* satisfies upregulated + downregulated <= significant_genes <= total_genes,
\* with upregulated + downregulated = significant_genes whenever the most
\* recent run_analysis used fc_threshold >= 0.
C10_SummaryBounds ==
    (last_run.type = "tuple" /\ significant_genes.type = "DataFrame") =>
        LET s == SummaryStats
        IN  /\ s.upregulated + s.downregulated <= s.significant_genes
            /\ s.significant_genes <= s.total_genes
            /\ (last_run.fc_threshold.v >= 0 =>
                   s.upregulated + s.downregulated = s.significant_genes)

\* C10 witness: after a run with a negative fc_threshold the stored result
\* holds a record with fold_change 0, and the sum is strictly smaller.
C10_Witness ==
    /\ last_run.type = "tuple"
    /\ last_run.fc_threshold.v < 0
    /\ significant_genes.type = "DataFrame"
    /\ SummaryStats.upregulated + SummaryStats.downregulated
          < SummaryStats.significant_genes
    /\ SummaryStats.significant_genes < SummaryStats.total_genes

----------------------------------------------------------------------------
(* filter_significant_genes called on its own *)

FilterInit ==
    /\ data \in UNION {DataFrames(cols) : cols \in SUBSET Columns}
    /\ significant_genes = None
    /\ op = [name |-> "load_expression_data"]
    /\ ret = None
    /\ last_run = None
    /\ gene_list = <<>>
    /\ pathway_db = None

CallFilter(p_threshold, fc_threshold) ==
    /\ op.name = "load_expression_data"
    /\ op' = [name |-> "filter_significant_genes", p_threshold |-> p_threshold,
              fc_threshold |-> fc_threshold]
    /\ ret' = filter_significant_genes(data, p_threshold, fc_threshold)
    /\ UNCHANGED <<data, significant_genes, last_run, gene_list, pathway_db>>

NextFilter == \E p \in PThresholds, fc \in FcThresholds : CallFilter(p, fc)

SpecFilter == FilterInit /\ [][NextFilter]_vars

\* C1: filter_significant_genes returns exactly the records with
\* p_value < p_threshold and abs(fold_change) > fc_threshold, in input order:
\* every returned record is an input record that satisfies both strict
\* inequalities, every record left out violates one of them, and an empty
\* input gives an empty result.
C1_FilterExact ==
    (op.name = "filter_significant_genes" /\ data.columns = Columns) =>
        LET pt  == op.p_threshold.v
            fct == op.fc_threshold.v
            p(i)  == data.values[i]["p_value"]
            fc(i) == data.values[i]["fold_change"]
            n == Len(ret.values)
            returned == {ret.index[k] + 1 : k \in 1..n}
        IN  /\ ret.type = "DataFrame"
            /\ Len(ret.index) = n
            /\ returned \subseteq 1..Len(data.values)
            /\ \A k \in 1..n : ret.values[k] = data.values[ret.index[k] + 1]
            /\ \A k \in 1..(n - 1) : ret.index[k] < ret.index[k + 1]
            /\ \A i \in returned :
                  /\ ~p(i).nan /\ p(i).v < pt
                  /\ ~fc(i).nan /\ (fc(i).v > fct \/ -fc(i).v > fct)
            /\ \A i \in (1..Len(data.values)) \ returned :
                  \/ p(i).nan \/ p(i).v >= pt
                  \/ fc(i).nan \/ (fc(i).v <= fct /\ -fc(i).v <= fct)

\* C1 witness: the first of two records has p_value equal to p_threshold and
\* a large enough fold change, and only the second record is returned.
C1_Witness ==
    /\ op.name = "filter_significant_genes"
    /\ data.columns = Columns
    /\ Len(data.values) = 2
    /\ data.values[1]["p_value"] = op.p_threshold
    /\ Gt(Abs(data.values[1]["fold_change"]), op.fc_threshold)
    /\ ret.type = "DataFrame"
    /\ ret.index = <<1>>

----------------------------------------------------------------------------
(* calculate_pathway_enrichment *)

Genes == {"A", "B", "C", "D", "E"}

GeneOrder == [g \in Genes |-> CASE g = "A" -> 1 [] g = "B" -> 2 [] g = "C" -> 3
                                [] g = "D" -> 4 [] g = "E" -> 5]

\* Lists of gene identifiers, repetitions allowed.  The code reads a list
\* only through set() and len(), so one order per multiset is enough.
GeneLists == {l \in SeqUpTo(Genes, MaxGeneList) :
                 \A i \in 1..(Len(l) - 1) : GeneOrder[l[i]] <= GeneOrder[l[i + 1]]}

Pathways ==
    { [name |-> "P1", genes |-> {"B", "C", "D", "E"}],
      [name |-> "P2", genes |-> {"A", "B", "C", "D"}],
      [name |-> "P3", genes |-> {"D", "E"}],
      [name |-> "P4", genes |-> {"A"}],
      [name |-> "P5", genes |-> {}] }

\* pathway_db['total_genes']: an integer, or a list of n gene identifiers
TotalGenes ==
    [type : {"int"}, n : {0, 2, 3, 5, 100}] \cup [type : {"list"}, n : {0, 2, 3, 5, 100}]

\* A pathway database: iterating it yields the pathways, and indexing it with
\* 'total_genes' yields total_genes.
PathwayDatabases ==
    [type : {"PathwayDatabase"}, pathways : SeqUpTo(Pathways, MaxPathways),
     total_genes : TotalGenes]

\* set(l)
Set(l) == {l[i] : i \in 1..Len(l)}

\* len(x) of pathway_db['total_genes']: an int has no len()
PyLen(x) == IF x.type = "int" THEN Raise("TypeError") ELSE x.n

\* binomial coefficient
RECURSIVE Choose(_, _)
Choose(n, k) ==
    IF k < 0 \/ k > n THEN 0
    ELSE IF k = 0 THEN 1
    ELSE (Choose(n, k - 1) * (n - k + 1)) \div k

RECURSIVE Sum(_, _, _)
Sum(f, lo, hi) == IF lo > hi THEN 0 ELSE f[lo] + Sum(f, lo + 1, hi)

Max(a, b) == IF a >= b THEN a ELSE b

Min(a, b) == IF a <= b THEN a ELSE b

\* a probability, kept exact as the fraction num / den
Prob(num, den) == [nan |-> FALSE, num |-> num, den |-> den]

ProbNaN == [nan |-> TRUE, num |-> 0, den |-> 1]

\* scipy.stats.hypergeom.sf(k, M, n, N) = P(X > k), X the number of marked
\* items among N drawn without replacement from M items of which n are
\* marked; nan when the parameters are not those of a distribution.
hypergeom_sf(k, M, n, N) ==
    IF ~(M > 0 /\ n >= 0 /\ N >= 0 /\ n <= M /\ N <= M) THEN ProbNaN
    ELSE LET lo == Max(0, N - (M - n))
             hi == Min(n, N)
             pmf == [i \in lo..hi |-> Choose(n, i) * Choose(M - n, N - i)]
         IN  Prob(Sum(pmf, Max(k + 1, lo), hi), Choose(M, N))

\* the loop of calculate_pathway_enrichment from pathway number i on, with
\* the results gathered so far
RECURSIVE EnrichLoop(_, _, _, _)
EnrichLoop(gl, db, i, enriched_pathways) ==
    IF i > Len(db.pathways)
    THEN DataFrame(IF enriched_pathways = <<>> THEN {}
                   ELSE {"pathway", "overlap", "p_value"}, enriched_pathways)
    ELSE LET pathway == db.pathways[i]
             overlap == Set(gl) \cap pathway.genes
             total   == PyLen(db.total_genes)
         IN  IF Cardinality(overlap) > 0
             THEN IF db.total_genes.type = "int" THEN total
                  ELSE EnrichLoop(gl, db, i + 1,
                         Append(enriched_pathways,
                           [pathway |-> pathway.name,
                            overlap |-> Cardinality(overlap),
                            p_value |-> hypergeom_sf(Cardinality(overlap) - 1, total,
                                            Cardinality(pathway.genes), Len(gl))]))
             ELSE EnrichLoop(gl, db, i + 1, enriched_pathways)

calculate_pathway_enrichment(gl, db) == EnrichLoop(gl, db, 1, <<>>)

EnrichInit ==
    /\ gene_list \in GeneLists
    /\ pathway_db \in PathwayDatabases
    /\ op = [name |-> "start"]
    /\ ret = None
    /\ data = None
    /\ significant_genes = None
    /\ last_run = None

CallEnrichment ==
    /\ op.name = "start"
    /\ op' = [name |-> "calculate_pathway_enrichment"]
    /\ ret' = calculate_pathway_enrichment(gene_list, pathway_db)
    /\ UNCHANGED <<data, significant_genes, last_run, gene_list, pathway_db>>

NextEnrich == CallEnrichment

SpecEnrich == EnrichInit /\ [][NextEnrich]_vars

----------------------------------------------------------------------------
(* Properties of calculate_pathway_enrichment *)

\* C2 (as claimed): with total_genes an integer attribute of the database
\* that is at least the pathway size and the gene_list size, every pathway
\* whose overlap with gene_list is > 0 is reported with
\* p_value = P(X >= overlap), X ~ Hypergeometric(total_genes,
\* |pathway.genes|, |gene_list|), here 1 - P(X <= overlap - 1) as a fraction
\* of the number of ways to draw the gene list.
C2_UpperTail ==
    (op.name = "calculate_pathway_enrichment" /\ pathway_db.total_genes.type = "int") =>
        \A i \in 1..Len(pathway_db.pathways) :
            LET pw == pathway_db.pathways[i]
                M  == pathway_db.total_genes.n
                K  == Cardinality(pw.genes)
                d  == Len(gene_list)
                k  == Cardinality(Set(gene_list) \cap pw.genes)
                below == Sum([j \in 0..(k - 1) |-> Choose(K, j) * Choose(M - K, d - j)],
                             0, k - 1)
            IN  (k > 0 /\ M >= K /\ M >= d) =>
                    /\ ret.type = "DataFrame"
                    /\ \E r \in 1..Len(ret.values) :
                          /\ ret.values[r].pathway = pw.name
                          /\ ~ret.values[r].p_value.nan
                          /\ ret.values[r].p_value.den = Choose(M, d)
                          /\ ret.values[r].p_value.num = Choose(M, d) - below

\* C3 (as claimed): the result holds one entry per pathway whose gene set
\* intersects gene_list, its overlap the size of the intersection, and no
\* entry for a pathway with overlap 0; an empty gene_list gives an empty
\* result and no error.  Stated for the databases whose total_genes is at
\* least every pathway size and the gene_list size.
C3_OverlapExact ==
    op.name = "calculate_pathway_enrichment" =>
        LET ov(i) == Cardinality(Set(gene_list) \cap pathway_db.pathways[i].genes)
            hit   == {i \in 1..Len(pathway_db.pathways) : ov(i) > 0}
            valid == /\ pathway_db.total_genes.n >= Len(gene_list)
                     /\ \A i \in 1..Len(pathway_db.pathways) :
                           pathway_db.total_genes.n
                              >= Cardinality(pathway_db.pathways[i].genes)
        IN  valid =>
            /\ ret.type = "DataFrame"
            /\ Len(ret.values) = Cardinality(hit)
            /\ \A i \in hit : \E r \in 1..Len(ret.values) :
                  /\ ret.values[r].pathway = pathway_db.pathways[i].name
                  /\ ret.values[r].overlap = ov(i)
            /\ \A r \in 1..Len(ret.values) : ret.values[r].overlap > 0

\* C7 (as claimed): the call fails with InvalidDistributionParameters, and
\* returns no results, exactly when total_genes is smaller than the size of
\* a pathway or smaller than the size of gene_list.
C7_InvalidParameters ==
    op.name = "calculate_pathway_enrichment" =>
        LET M == pathway_db.total_genes.n
            invalid == \/ M < Len(gene_list)
                       \/ \E i \in 1..Len(pathway_db.pathways) :
                             M < Cardinality(pathway_db.pathways[i].genes)
        IN  invalid <=> ret.type = "InvalidDistributionParameters"

\* C9 (as claimed): every reported p_value lies in [0,1], and of two
\* pathways of the same size reported in one result the one with the larger
\* overlap has the p_value that is not larger (the two fractions have the
\* same denominator, the number of ways to draw the gene list).
C9_MonotoneInOverlap ==
    (op.name = "calculate_pathway_enrichment" /\ ret.type = "DataFrame") =>
        LET size(r) == Cardinality((CHOOSE pw \in Pathways :
                                       pw.name = ret.values[r].pathway).genes)
            pv(r)   == ret.values[r].p_value
        IN  /\ \A r \in 1..Len(ret.values) :
                  ~pv(r).nan /\ 0 <= pv(r).num /\ pv(r).num <= pv(r).den
            /\ \A r1, r2 \in 1..Len(ret.values) :
                  (size(r1) = size(r2) /\ ret.values[r1].overlap < ret.values[r2].overlap)
                      => pv(r1).den = pv(r2).den /\ pv(r2).num <= pv(r1).num

====
